---- MODULE Spec2Model ----
(***************************************************************************)
(* Master/worker job dispatch of the SFX-suite batch scripts:              *)
(*   batch_hit_finder.py       (variant "hit",    flat-collect)            *)
(*   util/batch_peak2cxi.py    (variant "cxi",    local compaction)        *)
(*   util/batch_peak_powder.py (variant "powder", spatial merge)           *)
(* Rank 0 runs master_run, ranks 1..size-1 run slave_run.  Messages are    *)
(* MPI point-to-point messages: one FIFO channel per direction and worker. *)
(* Python indices are 0-based; TLA+ sequences are 1-based, so jobs[job_id] *)
(* of the source is jobs[job_id + 1] here.  The set `slaves` of cxi and    *)
(* powder is kept as a list in increasing rank order, the order in which   *)
(* CPython iterates a set of small ints.  Wall-clock values (time start,   *)
(* duration, the sleep between passes) are left out.                       *)
(***************************************************************************)
EXTENDS Integers, Sequences, FiniteSets, TLC

\* ------------------------------------------------------------- bounds
MaxSize == 3        \* processes of the communicator, 1..MaxSize
MaxFrames == 3      \* units (frames) of the input, 1..MaxFrames
MaxBatch == 2       \* --batch-size, 1..MaxBatch
MaxFreq == 2        \* --update-freq, 1..MaxFreq
MaxCxiSize == 2     \* --cxi-size, 1..MaxCxiSize
MaxSplitFrames == 6 \* units of the input when only the job list is built
MaxSplitBatch == 4  \* --batch-size when only the job list is built
WideFrames == 4     \* units of the input of a run with two jobs to spare

Variants == {"hit", "cxi", "powder"}
\* strong peaks a frame can have, and the thresholds tried: a frame is below
\* the threshold (0) or meets it exactly (1)
PeakVals == {0, 1}
MinPeaks == {1}

VARIABLES
    args,            \* command line / configuration of the run
    peak_info,       \* unit -> number of strong peaks of that frame
    mpc,             \* rank 0: position in __main__ / master_run
    jobs,            \* master_run: the job list
    job_id,          \* master_run: jobs dispatched so far
    reqs,            \* master_run: slave -> state of its receive request
    slaves,          \* master_run: the polled slaves, in iteration order
    finished_slaves, \* master_run: slaves already stopped (cxi, powder)
    idx,             \* master_run: position of the running for loop
    stop,            \* master_run: the flag variable
    all_done,        \* master_run: drain loop flag
    results,         \* master_run: results (hit) / peaks (powder)
    stat,            \* the progress snapshot file
    exit_status,     \* rank 0: process exit status, -1 while running
    wpc,             \* slave -> position in slave_run
    batch,           \* slave_run (cxi): buffered hits
    count,           \* slave_run (cxi): artifact counter
    artifacts,       \* slave -> cxi files written, in order
    toSlave,         \* slave -> messages from rank 0 not yet received
    toMaster,        \* slave -> messages to rank 0 not yet matched
    sent,            \* history: slave -> every message rank 0 sent to it
    nrecv,           \* history: slave -> results rank 0 received from it
    merged,          \* history: job ids merged into results / peaks
    pass_first       \* history: job_id at the head of the running polling pass

inputs == <<args, peak_info>>
mvars == <<mpc, jobs, job_id, reqs, slaves, finished_slaves, idx, stop,
           all_done, results, stat, exit_status>>
wvars == <<wpc, batch, count, artifacts>>
chans == <<toSlave, toMaster>>
hist == <<sent, nrecv, merged, pass_first>>
vars == <<inputs, mvars, wvars, chans, hist>>

\* ------------------------------------------------------------ helpers
Min(a, b) == IF a < b THEN a ELSE b

RECURSIVE Concat(_)
Concat(ss) == IF ss = <<>> THEN <<>> ELSE Head(ss) \o Concat(Tail(ss))

RECURSIVE Repeat(_, _)
Repeat(x, n) == IF n <= 0 THEN <<>> ELSE <<x>> \o Repeat(x, n - 1)

\* list - set, keeping the order
SeqMinus(s, S) == SelectSeq(s, LAMBDA x : x \notin S)

\* list.remove(x): drops the first occurrence
RemoveFirst(s, x) ==
    LET hits == {i \in 1..Len(s) : s[i] = x}
        k == CHOOSE i \in hits : \A j \in hits : i <= j
    IN IF hits = {} THEN s
       ELSE SubSeq(s, 1, k - 1) \o SubSeq(s, k + 1, Len(s))

Workers == 1..(args.size - 1)

\* ---------------------------------------------------------- job source
\* util.collect_jobs: contiguous batches of batch_size units, the last one
\* holding the remainder.
collect_jobs(n, b) ==
    LET k == (n + b - 1) \div b
    IN [j \in 1..k |-> [i \in 1..Min(b, n - (j - 1) * b) |-> (j - 1) * b + i - 1]]

\* a split that puts the whole remainder into the last section
array_split_tail(n, k) ==
    LET q == n \div k
        r == n % k
        len(j) == IF j = k THEN q + r ELSE q
    IN [j \in 1..k |-> [i \in 1..len(j) |-> (j - 1) * q + i - 1]]

\* a split that ignores the remainder
array_split_floor(n, k) ==
    LET q == n \div k
    IN [j \in 1..k |-> [i \in 1..q |-> (j - 1) * q + i - 1]]

\* np.array_split(np.arange(n), k): the first n % k sections hold
\* n // k + 1 entries, the others n // k.
array_split(n, k) ==
    LET q == n \div k
        r == n % k
        start(j) == (j - 1) * q + Min(j - 1, r)
        len(j) == IF j <= r THEN q + 1 ELSE q
    IN [j \in 1..k |-> [i \in 1..len(j) |-> start(j) + i - 1]]

\* int(np.ceil(len(peak_info) / batch_size))
CeilDiv(n, b) == (n + b - 1) \div b

BuildJobs(a) ==
    IF a.variant = "cxi"
    THEN array_split(a.nb_frames, CeilDiv(a.nb_frames, a.batch_size))
    ELSE collect_jobs(a.nb_frames, a.batch_size)

\* ------------------------------------------------------------ messages
\* rank 0 sends jobs (a list of units; id is the job's index, kept for the
\* history only) and flags (a bool)
JobMsg(j, units) == [type |-> "job", id |-> j, units |-> units, stop |-> FALSE]
FlagMsg(b) == [type |-> "flag", id |-> -1, units |-> <<>>, stop |-> b]
\* `job = []  # dummy job` has no index
DummyId == -1
\* what a slave sends: the answer to job `id`, or the final `done` of cxi
Answer(j, data) == [id |-> j, data |-> data]
DoneId == -2

\* --------------------------------------------------------------- inputs
ArgSet ==
    {[variant |-> v, size |-> s, nb_frames |-> n, batch_size |-> b,
      update_freq |-> f, min_peak |-> mp, cxi_size |-> c] :
        v \in Variants, s \in 1..MaxSize, n \in 1..MaxFrames,
        b \in 1..MaxBatch, f \in 1..MaxFreq, mp \in MinPeaks,
        c \in 1..MaxCxiSize}

\* options a variant does not have are left at 1
Relevant(a) ==
    /\ a.variant = "hit" => a.cxi_size = 1
    /\ a.variant = "cxi" => TRUE
    /\ a.variant = "powder" => a.cxi_size = 1 /\ a.update_freq = 1
    /\ a.size = 1 => /\ a.nb_frames = 1 /\ a.batch_size = 1 /\ a.update_freq = 1
                     /\ a.cxi_size = 1

NoStat == [state |-> "none", progress |-> 0, hits |-> 0, rate |-> 0,
           frames |-> 0, total_jobs |-> 0]

\* everything but the inputs, as it is when the processes start
Fresh ==
    /\ mpc = "main"
    /\ jobs = <<>>
    /\ job_id = 0
    /\ reqs = [w \in Workers |-> "none"]
    /\ slaves = <<>>
    /\ finished_slaves = {}
    /\ idx = 1
    /\ stop = FALSE
    /\ all_done = FALSE
    /\ results = <<>>
    /\ stat = NoStat
    /\ exit_status = -1
    /\ wpc = [w \in Workers |-> "recv_job"]
    /\ batch = [w \in Workers |-> <<>>]
    /\ count = [w \in Workers |-> 0]
    /\ artifacts = [w \in Workers |-> <<>>]
    /\ toSlave = [w \in Workers |-> <<>>]
    /\ toMaster = [w \in Workers |-> <<>>]
    /\ sent = [w \in Workers |-> <<>>]
    /\ nrecv = [w \in Workers |-> 0]
    /\ merged = <<>>
    /\ pass_first = 0

Init ==
    /\ args \in {a \in ArgSet : Relevant(a)}
    /\ peak_info \in [0..(args.nb_frames - 1) -> PeakVals]
    /\ Fresh

\* inputs of a run of batch_peak2cxi.py that is followed only until its job
\* list is built: more frames and larger batches than a whole run is given
SplitArgSet ==
    {[variant |-> "cxi", size |-> 2, nb_frames |-> n, batch_size |-> b,
      update_freq |-> 1, min_peak |-> mp, cxi_size |-> 1] :
        n \in 1..MaxSplitFrames, b \in 1..MaxSplitBatch, mp \in MinPeaks}

SplitInit ==
    /\ args \in SplitArgSet
    /\ peak_info \in [0..(args.nb_frames - 1) -> PeakVals]
    /\ Fresh

\* runs with two slaves and at least two more jobs than slaves, so that one
\* polling pass can hand out two jobs
WideArgSet ==
    {[variant |-> v, size |-> 3, nb_frames |-> WideFrames, batch_size |-> 1,
      update_freq |-> f, min_peak |-> mp, cxi_size |-> 1] :
        v \in Variants, f \in 1..MaxFreq, mp \in MinPeaks}

WideInit ==
    /\ args \in {a \in WideArgSet : Relevant(a)}
    /\ peak_info \in [0..(args.nb_frames - 1) -> PeakVals]
    /\ Fresh

\* ------------------------------------------------------------- __main__
\* slaves polled from the highest rank down
SlaveOrderDown(size) == [i \in 1..(size - 1) |-> size - i]

\* `slaves = list(range(1, size))` (hit), `set(range(1, size))` (cxi, powder)
SlaveOrder(size) == [i \in 1..(size - 1) |-> i]

\* rank 0: a communicator of size 1 prints the diagnostic and calls
\* sys.exit() (exit status 0); otherwise master_run starts: jobs are
\* collected, the counters are set and the saturate loop begins.
\* Ranks 1..size-1 exist only when size > 1, where __main__ goes straight
\* into slave_run: they start blocked in their first comm.recv.
Main0 ==
    /\ mpc = "main"
    /\ IF args.size = 1
       THEN /\ mpc' = "rejected"
            /\ exit_status' = 0
            /\ UNCHANGED <<jobs, slaves>>
       ELSE /\ mpc' = "saturate"
            /\ jobs' = BuildJobs(args)
            /\ slaves' = SlaveOrder(args.size)
            /\ UNCHANGED exit_status
    /\ UNCHANGED <<job_id, reqs, finished_slaves, idx, stop, all_done,
                   results, stat>>
    /\ UNCHANGED <<inputs, wvars, chans, hist>>

\* master_run up to the end of `# collect jobs` (batch_peak2cxi.py 44-51)
CollectJobs ==
    /\ mpc = "main"
    /\ mpc' = "collected"
    /\ jobs' = BuildJobs(args)
    /\ UNCHANGED <<job_id, reqs, slaves, finished_slaves, idx, stop, all_done,
                   results, stat, exit_status>>
    /\ UNCHANGED <<inputs, wvars, chans, hist>>

\* ----------------------------------------------------------- master_run
\* an uncaught exception ends rank 0 with a traceback (exit status 1)
Crashed == "crashed"

\* the None that test() yields when there is no message
NoAnswer == Answer(-3, <<>>)
\* changed test(): reports finished whether or not the answer has arrived
TestReqAlways(req, queue) ==
    IF req = "armed" /\ queue # <<>>
    THEN [finished |-> TRUE, none |-> FALSE, msg |-> Head(queue)]
    ELSE [finished |-> TRUE, none |-> TRUE, msg |-> NoAnswer]
\* reqs[slave].test(): an active request is finished once the slave's message
\* has arrived and then yields it; a request already completed is inactive
\* (MPI_REQUEST_NULL), and testing it again yields (True, None), on which
\* `results += result` raises TypeError.
TestReq(req, queue) ==
    IF req = "armed"
    THEN IF queue # <<>>
         THEN [finished |-> TRUE, none |-> FALSE, msg |-> Head(queue)]
         ELSE [finished |-> FALSE, none |-> TRUE, msg |-> NoAnswer]
    ELSE [finished |-> TRUE, none |-> TRUE, msg |-> NoAnswer]

\* `results += result` (hit), `peaks += result` (powder); cxi merges nothing
Merges(v) == v \in {"hit", "powder"}

\* `while job_id < nb_jobs`
SteadyCond(jid, nb) == jid < nb
\* `if job_id < nb_jobs` inside the polling pass
CanRefill(jid, nb) == jid < nb
\* changed flag: the pass starts with stop = True
PassStopTrue == TRUE
\* `stop = False` at the start of a polling pass
PassStop == FALSE
\* changed counter: the increment is missing
NextJobIdSame(j) == j
\* `job_id += 1`
NextJobId(j) == j + 1
\* `if job_id % update_freq == 0`
SnapshotDue(jid, f) == jid % f = 0
\* `nb_peak >= min_peak`
Accepts(p, mp) == p >= mp
\* '%.2f%%' % (float(a) / b * 100): hundredths of a percent, rounded
Pct2(a, b) == (2 * a * 10000 + b) \div (2 * b)

\* len(df[df['nb_peak'] >= min_peak])
Hits(res, mp) == Cardinality({i \in 1..Len(res) : Accepts(res[i].nb_peak, mp)})

\* the saturate loop, one slave per step
Saturate ==
    /\ mpc = "saturate"
    /\ LET slave == slaves[idx]
           has == job_id < Len(jobs)
           indexError == ~has /\ args.variant \in {"hit", "cxi"}
           msg == IF has THEN JobMsg(job_id, jobs[job_id + 1])
                  ELSE JobMsg(DummyId, <<>>)
       IN IF indexError
          THEN /\ mpc' = Crashed
               /\ exit_status' = 1
               /\ UNCHANGED <<job_id, reqs, idx, toSlave, sent>>
          ELSE /\ toSlave' = [toSlave EXCEPT ![slave] = Append(@, msg)]
               /\ sent' = [sent EXCEPT ![slave] = Append(@, msg)]
               /\ reqs' = [reqs EXCEPT ![slave] = "armed"]
               /\ job_id' = NextJobId(job_id)
               /\ idx' = idx + 1
               /\ mpc' = IF idx + 1 > Len(slaves) THEN "steady_while" ELSE "saturate"
               /\ UNCHANGED exit_status
    /\ UNCHANGED <<jobs, slaves, finished_slaves, stop, all_done, results, stat>>
    /\ UNCHANGED <<inputs, wvars, toMaster, nrecv, merged, pass_first>>

\* a refill that sends the job ahead of the flag
RefillMsgsJobFirst(flag, j, units) == <<JobMsg(j, units), FlagMsg(flag)>>

\* `comm.isend(stop, dest=slave)` then `comm.isend(jobs[job_id], dest=slave)`
RefillMsgs(flag, j, units) == <<FlagMsg(flag), JobMsg(j, units)>>

\* `while job_id < nb_jobs:` and the head of a polling pass
SteadyWhile ==
    /\ mpc = "steady_while"
    /\ IF SteadyCond(job_id, Len(jobs))
       THEN /\ stop' = PassStop
            /\ slaves' = IF args.variant = "hit" THEN slaves
                         ELSE SeqMinus(slaves, finished_slaves)
            /\ idx' = 1
            /\ mpc' = IF slaves' = <<>> THEN "steady_snap" ELSE "steady_for"
            /\ pass_first' = job_id
            /\ UNCHANGED all_done
       ELSE /\ mpc' = "drain_while"
            /\ all_done' = FALSE
            /\ UNCHANGED <<stop, slaves, idx, pass_first>>
    /\ UNCHANGED <<jobs, job_id, reqs, finished_slaves, results, stat, exit_status>>
    /\ UNCHANGED <<inputs, wvars, chans, sent, nrecv, merged>>

\* the body of the steady-state `for slave in slaves:`, one slave per step
SteadyPoll ==
    /\ mpc = "steady_for"
    /\ LET slave == slaves[idx]
           t == TestReq(reqs[slave], toMaster[slave])
           got == t.finished /\ ~t.none
           typeError == t.finished /\ t.none /\ Merges(args.variant)
           ok == t.finished /\ ~typeError
           refill == ok /\ CanRefill(job_id, Len(jobs))
           indexError == refill /\ job_id >= Len(jobs)
           stopNow == ok /\ ~refill
           out == IF refill
                  THEN IF indexError THEN <<FlagMsg(stop)>>
                       ELSE RefillMsgs(stop, job_id, jobs[job_id + 1])
                  ELSE IF stopNow THEN <<FlagMsg(TRUE)>> ELSE <<>>
       IN /\ toMaster' = IF got THEN [toMaster EXCEPT ![slave] = Tail(@)] ELSE toMaster
          /\ nrecv' = IF got THEN [nrecv EXCEPT ![slave] = @ + 1] ELSE nrecv
          /\ results' = IF got /\ Merges(args.variant) THEN results \o t.msg.data
                        ELSE results
          /\ merged' = IF got /\ Merges(args.variant) THEN Append(merged, t.msg.id)
                       ELSE merged
          /\ toSlave' = [toSlave EXCEPT ![slave] = @ \o out]
          /\ sent' = [sent EXCEPT ![slave] = @ \o out]
          /\ reqs' = IF refill /\ ~indexError THEN [reqs EXCEPT ![slave] = "armed"]
                     ELSE IF t.finished THEN [reqs EXCEPT ![slave] = "null"]
                     ELSE reqs
          /\ job_id' = IF refill /\ ~indexError THEN NextJobId(job_id) ELSE job_id
          /\ stop' = IF stopNow THEN TRUE ELSE stop
          /\ finished_slaves' = IF stopNow /\ args.variant # "hit"
                                THEN finished_slaves \cup {slave}
                                ELSE finished_slaves
          /\ IF typeError \/ indexError
             THEN /\ mpc' = Crashed
                  /\ exit_status' = 1
                  /\ UNCHANGED idx
             ELSE /\ idx' = idx + 1
                  /\ mpc' = IF idx + 1 > Len(slaves) THEN "steady_snap" ELSE "steady_for"
                  /\ UNCHANGED exit_status
    /\ UNCHANGED <<jobs, slaves, all_done, stat>>
    /\ UNCHANGED <<inputs, wvars, pass_first>>

\* the quotient taken the wrong way round
ProgressSwapped(jid, nb) == Pct2(nb, jid)

\* `progress = float(job_id) / nb_jobs * 100`, printed with '%.2f%%'
Progress(jid, nb) == Pct2(jid, nb)

\* the end of a polling pass: `if job_id % update_freq == 0:` writes the
\* snapshot (hit, cxi; powder has none).  pd.DataFrame([])['nb_peak'] raises
\* KeyError when nothing has been merged yet.
SteadySnapshot ==
    /\ mpc = "steady_snap"
    /\ LET due == args.variant # "powder" /\ SnapshotDue(job_id, args.update_freq)
           keyError == due /\ args.variant = "hit" /\ results = <<>>
           progress == Progress(job_id, Len(jobs))
       IN IF keyError
          THEN /\ mpc' = Crashed
               /\ exit_status' = 1
               /\ UNCHANGED stat
          ELSE /\ mpc' = "steady_while"
               /\ UNCHANGED exit_status
               /\ stat' = IF ~due THEN stat
                          ELSE IF args.variant = "hit"
                          THEN [state |-> "running", progress |-> progress,
                                hits |-> Hits(results, args.min_peak),
                                rate |-> Pct2(Hits(results, args.min_peak), Len(results)),
                                frames |-> Len(results), total_jobs |-> Len(jobs)]
                          ELSE [state |-> "running", progress |-> progress,
                                hits |-> 0, rate |-> 0, frames |-> 0,
                                total_jobs |-> Len(jobs)]
    /\ UNCHANGED <<jobs, job_id, reqs, slaves, finished_slaves, idx, stop,
                   all_done, results>>
    /\ UNCHANGED <<inputs, wvars, chans, hist>>

\* `while not all_done:` and the head of a drain pass
DrainWhile ==
    /\ mpc = "drain_while"
    /\ IF all_done
       THEN /\ mpc' = "finalize"
            /\ UNCHANGED <<all_done, slaves, idx>>
       ELSE /\ all_done' = TRUE
            /\ slaves' = IF args.variant = "hit" THEN slaves
                         ELSE SeqMinus(slaves, finished_slaves)
            /\ idx' = 1
            /\ mpc' = IF slaves' = <<>> THEN "drain_while" ELSE "drain_for"
    /\ UNCHANGED <<jobs, job_id, reqs, finished_slaves, stop, results, stat,
                   exit_status>>
    /\ UNCHANGED <<inputs, wvars, chans, hist>>

\* hit: `slaves.remove(slave)` inside `for slave in slaves:`; the list
\* iterator keeps its index, so the element after the removed one is not
\* visited in this pass.  cxi, powder: `finished_slaves.add(slave)`, the set
\* being iterated is left alone.
DrainSlaves(v, sl, slave) == IF v = "hit" THEN RemoveFirst(sl, slave) ELSE sl

\* the body of the drain `for slave in slaves:`, one slave per step
DrainPoll ==
    /\ mpc = "drain_for"
    /\ LET slave == slaves[idx]
           t == TestReq(reqs[slave], toMaster[slave])
           got == t.finished /\ ~t.none
           typeError == t.finished /\ t.none /\ Merges(args.variant)
           ok == t.finished /\ ~typeError
           out == IF ok THEN <<FlagMsg(TRUE)>> ELSE <<>>
       IN /\ toMaster' = IF got THEN [toMaster EXCEPT ![slave] = Tail(@)] ELSE toMaster
          /\ nrecv' = IF got THEN [nrecv EXCEPT ![slave] = @ + 1] ELSE nrecv
          /\ results' = IF got /\ Merges(args.variant) THEN results \o t.msg.data
                        ELSE results
          /\ merged' = IF got /\ Merges(args.variant) THEN Append(merged, t.msg.id)
                       ELSE merged
          /\ toSlave' = [toSlave EXCEPT ![slave] = @ \o out]
          /\ sent' = [sent EXCEPT ![slave] = @ \o out]
          /\ reqs' = IF t.finished THEN [reqs EXCEPT ![slave] = "null"] ELSE reqs
          /\ stop' = IF ok THEN TRUE ELSE stop
          /\ slaves' = IF ok THEN DrainSlaves(args.variant, slaves, slave) ELSE slaves
          /\ finished_slaves' = IF ok /\ args.variant # "hit"
                                THEN finished_slaves \cup {slave}
                                ELSE finished_slaves
          /\ all_done' = IF t.finished THEN all_done ELSE FALSE
          /\ IF typeError
             THEN /\ mpc' = Crashed
                  /\ exit_status' = 1
                  /\ UNCHANGED idx
             ELSE /\ idx' = idx + 1
                  /\ mpc' = IF idx + 1 > Len(slaves') THEN "drain_while" ELSE "drain_for"
                  /\ UNCHANGED exit_status
    /\ UNCHANGED <<jobs, job_id, stat>>
    /\ UNCHANGED <<inputs, wvars, pass_first>>

\* after the drain loop: hit writes the csv and the final snapshot, cxi the
\* final snapshot, powder builds the powder pattern (peaks[:, 0] raises
\* IndexError on an empty peak list); then 'All Done!' is printed.
Finalize ==
    /\ mpc = "finalize"
    /\ LET keyError == args.variant = "hit" /\ results = <<>>
           indexError == args.variant = "powder" /\ results = <<>>
       IN IF keyError \/ indexError
          THEN /\ mpc' = Crashed
               /\ exit_status' = 1
               /\ UNCHANGED stat
          ELSE /\ mpc' = "done"
               /\ exit_status' = 0
               /\ stat' = IF args.variant = "hit"
                          THEN [state |-> "done", progress |-> 0,
                                hits |-> Hits(results, args.min_peak),
                                rate |-> Pct2(Hits(results, args.min_peak), Len(results)),
                                frames |-> Len(results), total_jobs |-> Len(jobs)]
                          ELSE IF args.variant = "cxi"
                          THEN [state |-> "done", progress |-> 0, hits |-> 0,
                                rate |-> 0, frames |-> 0, total_jobs |-> Len(jobs)]
                          ELSE stat
    /\ UNCHANGED <<jobs, job_id, reqs, slaves, finished_slaves, idx, stop,
                   all_done, results>>
    /\ UNCHANGED <<inputs, wvars, chans, hist>>

\* ------------------------------------------------------------ slave_run
\* changed test: the file is written one unit late
BatchFullOver(b, c) == Len(b) > c
\* `if len(batch) == cxi_size:`
BatchFull(b, c) == Len(b) = c
\* changed counter: the increment is missing
NextCountSame(c) == c
\* `count += 1` after a full cxi file
NextCount(c) == c + 1

\* util.save_full_cxi(batch, '<prefix>-rank<rank>-job<count>.cxi'): one write
CxiFile(rank, c, b, last) == [rank |-> rank, job |-> c, units |-> b, final |-> last]

\* cxi: the `for i in range(len(job)):` loop over one job;
\* st = [batch, count, artifacts] of the slave
RECURSIVE Compact(_, _, _, _)
Compact(units, st, rank, a) ==
    IF units = <<>> THEN st
    ELSE LET u == Head(units)
             b1 == IF Accepts(peak_info[u], a.min_peak) THEN Append(st.batch, u)
                   ELSE st.batch
             st1 == IF BatchFull(b1, a.cxi_size)
                    THEN [batch |-> <<>>,
                          count |-> NextCount(st.count),
                          artifacts |-> Append(st.artifacts,
                                               CxiFile(rank, st.count, b1, FALSE))]
                    ELSE [st EXCEPT !.batch = b1]
         IN Compact(Tail(units), st1, rank, a)

\* hit: job[i]['nb_peak'] = len(peaks_dict['strong']), 0 when there is none
Annotate(units) == [i \in 1..Len(units) |-> [unit |-> units[i], nb_peak |-> peak_info[units[i]]]]
\* powder: peaks += peaks_dict['strong'].tolist(); a peak is named by its frame
PeakList(units) == Concat([i \in 1..Len(units) |-> Repeat(units[i], peak_info[units[i]])])

\* one turn of `while not stop:` up to comm.send: receive the job, work on
\* every unit of it, send the answer.  len() of a flag raises TypeError.
SlaveJob(w) ==
    /\ wpc[w] = "recv_job"
    /\ toSlave[w] # <<>>
    /\ LET m == Head(toSlave[w])
           st == Compact(m.units, [batch |-> batch[w], count |-> count[w],
                                   artifacts |-> artifacts[w]], w, args)
           data == IF args.variant = "hit" THEN Annotate(m.units)
                   ELSE IF args.variant = "powder" THEN PeakList(m.units)
                   ELSE m.units
       IN /\ toSlave' = [toSlave EXCEPT ![w] = Tail(@)]
          /\ IF m.type # "job"
             THEN /\ wpc' = [wpc EXCEPT ![w] = Crashed]
                  /\ UNCHANGED <<batch, count, artifacts, toMaster>>
             ELSE /\ wpc' = [wpc EXCEPT ![w] = "recv_flag"]
                  /\ toMaster' = [toMaster EXCEPT ![w] = Append(@, Answer(m.id, data))]
                  /\ IF args.variant = "cxi"
                     THEN /\ batch' = [batch EXCEPT ![w] = st.batch]
                          /\ count' = [count EXCEPT ![w] = st.count]
                          /\ artifacts' = [artifacts EXCEPT ![w] = st.artifacts]
                     ELSE UNCHANGED <<batch, count, artifacts>>
    /\ UNCHANGED <<inputs, mvars, hist>>

\* `stop = comm.recv(source=0)` and the loop test `while not stop`
SlaveFlag(w) ==
    /\ wpc[w] = "recv_flag"
    /\ toSlave[w] # <<>>
    /\ LET m == Head(toSlave[w])
           truthy == IF m.type = "flag" THEN m.stop ELSE m.units # <<>>
       IN /\ toSlave' = [toSlave EXCEPT ![w] = Tail(@)]
          /\ wpc' = [wpc EXCEPT ![w] = IF truthy THEN "after_loop" ELSE "recv_job"]
    /\ UNCHANGED <<batch, count, artifacts, toMaster>>
    /\ UNCHANGED <<inputs, mvars, hist>>

\* after the loop: cxi saves the last batch if it is not empty and sends
\* `done` to rank 0; hit and powder return at once.
SlaveExit(w) ==
    /\ wpc[w] = "after_loop"
    /\ wpc' = [wpc EXCEPT ![w] = "exited"]
    /\ IF args.variant = "cxi"
       THEN /\ artifacts' = IF Len(batch[w]) > 0
                            THEN [artifacts EXCEPT ![w] =
                                    Append(@, CxiFile(w, count[w], batch[w], TRUE))]
                            ELSE artifacts
            /\ toMaster' = [toMaster EXCEPT ![w] = Append(@, Answer(DoneId, <<>>))]
       ELSE UNCHANGED <<artifacts, toMaster>>
    /\ UNCHANGED <<batch, count, toSlave>>
    /\ UNCHANGED <<inputs, mvars, hist>>

\* ------------------------------------------------------- specifications
Master ==
    \/ Main0
    \/ Saturate
    \/ SteadyWhile
    \/ SteadyPoll
    \/ SteadySnapshot
    \/ DrainWhile
    \/ DrainPoll
    \/ Finalize

Slave(w) ==
    \/ SlaveJob(w)
    \/ SlaveFlag(w)
    \/ SlaveExit(w)

Next ==
    \/ Master
    \/ \E w \in Workers : Slave(w)

Spec == Init /\ [][Next]_vars

\* every process keeps running: rank 0 polls without blocking, a slave
\* blocked in recv goes on once its message is there
FairSpec ==
    /\ Spec
    /\ WF_vars(Master)
    /\ \A w \in 1..(MaxSize - 1) : WF_vars(w \in Workers /\ Slave(w))

\* batch_peak2cxi.py followed until its job list is built
SplitNext == CollectJobs

SplitSpec == SplitInit /\ [][SplitNext]_vars

\* whole runs on the wide inputs
WideSpec == WideInit /\ [][Next]_vars

\* ---------------------------------------------------- derived quantities
NbJobs == Len(BuildJobs(args))
NbWorkers == args.size - 1
Started == mpc # "main"
Count(seq, P(_)) == Cardinality({i \in 1..Len(seq) : P(seq[i])})
IsJob(m) == m.type = "job"
IsStop(m) == m.type = "flag" /\ m.stop
JobsSent(w) == Count(sent[w], IsJob)
StopsSent(w) == Count(sent[w], IsStop)
Outstanding(w) == JobsSent(w) - nrecv[w]
\* how often job j was sent, over all slaves
TimesSent(j) ==
    Cardinality(UNION {{<<w, i>> : i \in {k \in 1..Len(sent[w]) :
                                            IsJob(sent[w][k]) /\ sent[w][k].id = j}} :
                       w \in Workers})
\* how often the answer to job j was merged
TimesMerged(j) == Cardinality({i \in 1..Len(merged) : merged[i] = j})
\* the steady-state loop has been left in the normal way
PastSteady == mpc \in {"drain_while", "drain_for", "finalize", "done"}
\* units with enough peaks, in the whole input
AllHits == {u \in 0..(args.nb_frames - 1) : peak_info[u] >= args.min_peak}

\* --------------------------------------------------------------- claims

\* C1: rank 0 reports "done" (final snapshot, 'All Done!') only after every
\* slave has had the answer to its last job received and has been sent the
\* stop flag; no slave is still outstanding then.
C1_DoneOnlyAfterDrain ==
    mpc = "done" =>
        \A w \in Workers :
            /\ Outstanding(w) = 0
            /\ reqs[w] # "armed"
            /\ StopsSent(w) >= 1

\* C2: when rank 0 finalizes, the aggregate accounts for every unit of every
\* job exactly once: hit has one row per unit of the input, hit and powder
\* have merged the answer to every job once.
C2_AllUnitsOnce ==
    (mpc = "done" /\ Merges(args.variant)) =>
        /\ \A j \in 0..(NbJobs - 1) : TimesMerged(j) = 1
        /\ args.variant = "hit" =>
              /\ Len(results) = args.nb_frames
              /\ \A u \in 0..(args.nb_frames - 1) :
                    Cardinality({i \in 1..Len(results) : results[i].unit = u}) = 1

\* C3: every slave has at most one outstanding job: jobs sent to it minus
\* answers received from it is 0 or 1 in every reachable state.
C3_OneOutstanding ==
    \A w \in Workers : Outstanding(w) \in {0, 1}

\* C3 witness: a slave that answered its first job holds a second one
C3_Witness ==
    \E w \in Workers : JobsSent(w) = 2 /\ nrecv[w] = 1

\* C4: once the stop flag (True) has been sent to a slave, no job is sent to
\* that slave afterwards.
C4_NoJobAfterStop ==
    \A w \in Workers :
        \A i \in 1..Len(sent[w]) :
            IsStop(sent[w][i]) =>
                \A k \in (i + 1)..Len(sent[w]) : ~IsJob(sent[w][k])

\* C4 witness: within the steady-state loop one slave has been stopped and
\* another one has just been given a job
C4_Witness ==
    /\ mpc \in {"steady_for", "steady_snap"}
    /\ \E w \in Workers : StopsSent(w) = 1
    /\ \E w \in Workers : JobsSent(w) = 2 /\ StopsSent(w) = 0

\* C5: with no more slaves than jobs, no job is sent twice, and once the
\* steady-state loop is left every job 0..nb_jobs-1 has been sent exactly once.
C5_EachJobOnce ==
    (Started /\ NbWorkers <= NbJobs) =>
        /\ \A j \in 0..(NbJobs - 1) : TimesSent(j) <= 1
        /\ PastSteady => \A j \in 0..(NbJobs - 1) : TimesSent(j) = 1
        /\ \A w \in Workers : \A i \in 1..Len(sent[w]) :
              IsJob(sent[w][i]) => sent[w][i].id \in 0..(NbJobs - 1)

\* C5 witness: a run with more jobs than slaves has come to its end
C5_Witness ==
    /\ mpc = "done"
    /\ NbWorkers = 2
    /\ NbJobs = 3
    /\ \A j \in 0..2 : TimesSent(j) = 1

\* C6: under fair scheduling, with no slave failing, rank 0 eventually
\* finalizes and every slave eventually receives the stop flag and leaves its
\* loop; none stays blocked in a receive.  Stated for the slaves, from the
\* moment rank 0 enters the drain loop: from there on every slave comes to
\* its end.
C6_AllTerminate ==
    (mpc = "drain_while") ~> (\A w \in Workers : wpc[w] = "exited")

\* the messages slave w has taken from its channel, and the units of the
\* jobs among them, in order
Received(w) == SubSeq(sent[w], 1, Len(sent[w]) - Len(toSlave[w]))
ProcessedUnits(w) ==
    Concat([i \in 1..Len(Received(w)) |->
              IF IsJob(Received(w)[i]) THEN Received(w)[i].units ELSE <<>>])
EnoughPeaks(u) == peak_info[u] >= args.min_peak
AcceptedUnits(w) == SelectSeq(ProcessedUnits(w), EnoughPeaks)
WrittenUnits(w) == Concat([i \in 1..Len(artifacts[w]) |-> artifacts[w][i].units])

\* C7: cxi slave: every file written before the stop flag holds exactly
\* cxi_size units; after the stop flag a non-empty rest is written once more;
\* every accepted unit is in exactly one file when the slave has exited, so
\* A accepted units give ceil(A / cxi_size) files.
C7_Compaction ==
    args.variant = "cxi" =>
        \A w \in Workers :
            LET F == artifacts[w]
                A == AcceptedUnits(w)
            IN /\ \A i \in 1..Len(F) :
                    IF F[i].final
                    THEN /\ i = Len(F)
                         /\ wpc[w] = "exited"
                         /\ Len(F[i].units) \in 1..args.cxi_size
                    ELSE Len(F[i].units) = args.cxi_size
               /\ wpc[w] # "exited" => WrittenUnits(w) \o batch[w] = A
               /\ wpc[w] = "exited" =>
                    /\ WrittenUnits(w) = A
                    /\ Len(F) = (Len(A) + args.cxi_size - 1) \div args.cxi_size

\* C7 witness: capacity 2, three accepted units: files of 2 and 1 units, the
\* last one written after the stop flag
C7_Witness ==
    /\ args.variant = "cxi"
    /\ args.cxi_size = 2
    /\ \E w \in Workers :
          /\ wpc[w] = "exited"
          /\ Len(artifacts[w]) = 2
          /\ Len(artifacts[w][1].units) = 2
          /\ Len(artifacts[w][2].units) = 1
          /\ artifacts[w][2].final

\* C8: no two cxi files share a (rank, counter) name: within one slave the
\* counter of a file is greater than that of every file written before it,
\* the file of the final flush included.
C8_UniqueNames ==
    \A w \in Workers :
        \A i \in 1..Len(artifacts[w]) :
            /\ artifacts[w][i].rank = w
            /\ \A k \in 1..(i - 1) : artifacts[w][k].job < artifacts[w][i].job

\* C8 witness: a slave wrote a full file and then the final one, as job 1
C8_Witness ==
    \E w \in Workers :
        /\ wpc[w] = "exited"
        /\ Len(artifacts[w]) = 2
        /\ ~artifacts[w][1].final
        /\ artifacts[w][2].final
        /\ artifacts[w][2].job = 1

\* C9: a communicator of size 1 is rejected: the diagnostic is printed,
\* master_run is not entered and the exit status is non-zero.
C9_SingleProcessRejected ==
    (args.size = 1 /\ Started) => (mpc = "rejected" /\ exit_status # 0)

\* C10: hit: the final snapshot's 'processed hits' is the number of units of
\* the run with nb_peak >= min_peak, and 'hit rate' is 100 * hits / units.
C10_FinalHitCount ==
    (args.variant = "hit" /\ stat.state = "done") =>
        /\ stat.hits = Cardinality(AllHits)
        /\ stat.rate = Pct2(Cardinality(AllHits), args.nb_frames)

\* ------------------------------------------------ claims on the job list
Collected == mpc = "collected" /\ args.variant = "cxi"

RECURSIVE SumLen(_)
SumLen(ss) == IF ss = <<>> THEN 0 ELSE Len(Head(ss)) + SumLen(Tail(ss))

\* each job is a run of consecutive units and the next job goes on where
\* the one before it ended
Contiguous(js) ==
    /\ \A j \in 1..Len(js) : \A i \in 1..(Len(js[j]) - 1) : js[j][i + 1] = js[j][i] + 1
    /\ \A j \in 1..(Len(js) - 1) :
          (js[j] # <<>> /\ js[j + 1] # <<>>) => js[j + 1][1] = js[j][Len(js[j])] + 1

\* C11 (as stated): the job list of batch_peak2cxi.py is made of contiguous
\* batches of exactly batch_size units each, except possibly the last one,
\* which holds the remainder r with 1 <= r <= batch_size.
C11_FixedSizeBatches ==
    Collected =>
        /\ Len(jobs) = CeilDiv(args.nb_frames, args.batch_size)
        /\ Contiguous(jobs)
        /\ \A j \in 1..(Len(jobs) - 1) : Len(jobs[j]) = args.batch_size
        /\ Len(jobs[Len(jobs)]) \in 1..args.batch_size

\* C11 (amended): the job list of batch_peak2cxi.py is made of
\* ceil(n / batch_size) contiguous batches of 1 to batch_size units each,
\* whose sizes differ by at most one, the larger batches coming first.
C11_BalancedBatches ==
    Collected =>
        /\ Len(jobs) = CeilDiv(args.nb_frames, args.batch_size)
        /\ Contiguous(jobs)
        /\ \A j \in 1..Len(jobs) : Len(jobs[j]) \in 1..args.batch_size
        /\ \A j \in 1..Len(jobs) : \A k \in (j + 1)..Len(jobs) :
              Len(jobs[j]) - Len(jobs[k]) \in {0, 1}

\* C11 witness: 4 units with batch size 3 are split into two jobs of 2
C11_Witness ==
    /\ Collected
    /\ args.nb_frames = 4
    /\ args.batch_size = 3
    /\ jobs = <<(<<0, 1>>), (<<2, 3>>)>>

\* C12: the job lengths of batch_peak2cxi.py add up to the number of units
\* and the jobs, concatenated in order, are the units 0..n-1, each once.
C12_SplitCoversAll ==
    Collected =>
        /\ SumLen(jobs) = args.nb_frames
        /\ Concat(jobs) = [i \in 1..args.nb_frames |-> i - 1]

\* C12 witness: 5 units with batch size 2 give jobs of 2, 2 and 1 units
C12_Witness ==
    /\ Collected
    /\ args.nb_frames = 5
    /\ args.batch_size = 2
    /\ Len(jobs) = 3
    /\ Len(jobs[3]) = 1

\* ------------------------------------------------- claims on the dispatch
\* rank 0 died before every slave had its receive armed
SaturateFailed == mpc = Crashed /\ \E w \in Workers : reqs[w] = "none"
SaturateDone == Started /\ mpc \notin {"saturate", "rejected", "collected", Crashed}

\* C13: the saturate loop never fails and never indexes the job list at or
\* past nb_jobs: slave w gets job w-1 if there is one and an empty
\* placeholder job otherwise, and a receive is armed for it either way.
C13_SaturateNeverFails ==
    /\ ~SaturateFailed
    /\ SaturateDone =>
          \A w \in Workers :
              /\ sent[w] # <<>>
              /\ sent[w][1] = IF w - 1 < NbJobs THEN JobMsg(w - 1, jobs[w])
                               ELSE JobMsg(DummyId, <<>>)
              /\ reqs[w] # "none"

\* rank 0 is in a polling loop, about to test the request of slaves[idx]
Polling == mpc \in {"steady_for", "drain_for"}

\* C14: a slave that has been sent the stop flag has left the polled set:
\* the request rank 0 is about to test is never that of a stopped slave and
\* is still armed (no request is consumed as finished twice), and no slave
\* is sent a second stop flag.
C14_StoppedLeavesPolling ==
    /\ \A w \in Workers : StopsSent(w) <= 1
    /\ Polling => /\ StopsSent(slaves[idx]) = 0
                  /\ reqs[slaves[idx]] = "armed"

\* C15: no multiple of update_freq that job_id reaches in the steady-state
\* loop is skipped: when job_id moves on from such a multiple m, the
\* snapshot file shows progress m / nb_jobs, even when several slaves are
\* given a job in the same polling pass.
C15_NoMultipleSkipped ==
    [][(/\ mpc = "steady_for"
        /\ job_id' # job_id
        /\ job_id > NbWorkers
        /\ args.variant # "powder"
        /\ SnapshotDue(job_id, args.update_freq))
       => (stat.state = "running" /\ stat.progress = Progress(job_id, Len(jobs)))]_vars

\* job, then (continue flag, job) any number of times, then at most one
\* stop flag, after which nothing follows
JobFlagOrder(log) ==
    \A i \in 1..Len(log) :
        /\ (i % 2 = 1) => IsJob(log[i])
        /\ (i % 2 = 0) => log[i].type = "flag"
        /\ (log[i].type = "flag" /\ ~log[i].stop) => i < Len(log)
        /\ IsStop(log[i]) => i = Len(log)

\* C16: what a slave is sent, in order, is one job, then (continue flag,
\* job) repeatedly, then one stop flag.  A job is on its way to a slave only
\* when rank 0 holds the answers to all its earlier jobs; the message a
\* slave finds at its job receive is a job, at its flag receive a flag, and
\* no slave fails on a message of the wrong kind.
C16_JobFlagProtocol ==
    \A w \in Workers :
        /\ JobFlagOrder(sent[w])
        /\ (\E i \in 1..Len(toSlave[w]) : IsJob(toSlave[w][i])) =>
              (nrecv[w] = JobsSent(w) - 1 /\ toMaster[w] = <<>>)
        /\ wpc[w] # Crashed
        /\ (wpc[w] = "recv_job" /\ toSlave[w] # <<>>) => IsJob(Head(toSlave[w]))
        /\ (wpc[w] = "recv_flag" /\ toSlave[w] # <<>>) => Head(toSlave[w]).type = "flag"

\* C16 witness: a slave has received job, continue, job, stop and has left
C16_Witness ==
    \E w \in Workers :
        /\ wpc[w] = "exited"
        /\ Len(sent[w]) = 4
        /\ IsJob(sent[w][1])
        /\ sent[w][2] = FlagMsg(FALSE)
        /\ IsJob(sent[w][3])
        /\ sent[w][4] = FlagMsg(TRUE)

\* rank 0 is inside a steady-state polling pass
InPass == mpc \in {"steady_for", "steady_snap"}
\* the jobs handed out in the running pass so far
PassJobs == pass_first..(job_id - 1)
\* the slave job j was sent to
Owner(j) == CHOOSE w \in Workers :
                \E i \in 1..Len(sent[w]) : IsJob(sent[w][i]) /\ sent[w][i].id = j
\* the slaves whose answer rank 0 took in the running pass and that were
\* given a job for it
Refilled == {Owner(j) : j \in PassJobs}

\* C17: the slaves found finished in one polling pass are served in
\* increasing rank order: the jobs handed out in the pass go, in job order,
\* to slaves of increasing rank, all of them already polled in this pass, so
\* who gets which job depends only on which slaves were found finished.
C17_RankOrderInPass ==
    InPass =>
        /\ \A j \in PassJobs : TimesSent(j) = 1
        /\ \A j \in PassJobs : \E k \in 1..(idx - 1) : slaves[k] = Owner(j)
        /\ \A j1 \in PassJobs : \A j2 \in PassJobs :
              (j1 < j2) => Owner(j1) < Owner(j2)
        /\ \A j \in PassJobs :
              j - pass_first = Cardinality({w \in Refilled : w < Owner(j)})

\* C17 witness: both slaves were found finished in one pass and got the
\* next two jobs, slave 1 the first of them
C17_Witness ==
    /\ mpc = "steady_snap"
    /\ job_id = pass_first + 2
    /\ Owner(pass_first) = 1
    /\ Owner(pass_first + 1) = 2

\* C18: hit: whenever the steady-state loop computes a snapshot, at least
\* one result has been merged, so the divisor of the hit rate is positive.
C18_SnapshotNotEmpty ==
    (/\ args.variant = "hit"
     /\ mpc = "steady_snap"
     /\ SnapshotDue(job_id, args.update_freq)) => Len(results) > 0

\* C19: cxi: once rank 0 has printed 'All Done!' and called MPI.Finalize,
\* no message of a slave is left without a receive of rank 0: whatever a
\* slave that has run to its end has sent has been matched.
C19_NoUnmatchedMessage ==
    (args.variant = "cxi" /\ mpc = "done") =>
        \A w \in Workers : wpc[w] = "exited" => toMaster[w] = <<>>

\* what a percentage snapshot may show: a dispatched count of 1..nb_jobs
SnapshotInRange ==
    stat.state = "running" =>
        /\ stat.progress > 0
        /\ stat.progress <= 10000
        /\ \E j \in 1..Min(job_id, Len(jobs)) : stat.progress = Progress(j, Len(jobs))

\* C20: every percentage snapshot shows a progress above 0 and of at most
\* 100 (job_id <= nb_jobs whenever one is written); a later snapshot never
\* shows less than an earlier one; once the 'done' snapshot is written the
\* file does not change any more.
C20_ProgressMonotone ==
    /\ [](SnapshotInRange /\ (mpc = "steady_snap" => job_id <= Len(jobs)))
    /\ [][/\ ((stat.state = "running" /\ stat'.state = "running")
                  => (stat'.progress >= stat.progress))
           /\ ((stat.state = "done") => (stat' = stat))]_vars

\* C20 witness: the last percentage snapshot, 100.00%, is in the file and
\* rank 0 is about to overwrite it with the 'done' snapshot
C20_Witness ==
    /\ mpc = "finalize"
    /\ stat.state = "running"
    /\ stat.progress = 10000
====
